---------------------------- MODULE Spec2Model ----------------------------
(***************************************************************************)
(* Model of model/routes/predict.py: the batch prediction handler          *)
(* (predict), the recent-results query (get_results) and the single-result *)
(* query (get_result_by_id).                                               *)
(*                                                                         *)
(* Strings the code inspects character by character (the class label) are  *)
(* sequences of one-character strings.  The prediction engine, the image   *)
(* archive (the filesystem) and the clock are the environment: each handler*)
(* step takes the environment's answer as an input.  The result store      *)
(* (crud.save_result, crud.get_recent_results, crud.get_result_by_id) is   *)
(* not part of the routes file and is modelled from its contract.          *)
(***************************************************************************)
EXTENDS Integers, Sequences, FiniteSets, TLC

\* ------------------------------------------------------------------ bounds
MaxFiles == 2
MaxClock == 1
MaxLimit == 2
MaxParts == 3

\* default of the limit parameter of get_results
DefaultLimit == 100

\* ---------------------------------------------------------------- helpers
Null == [null |-> TRUE]

RECURSIVE Concat(_)
Concat(parts) ==
  IF parts = << >> THEN << >> ELSE Head(parts) \o Concat(Tail(parts))

SeqsUpTo(S, n) == UNION { [1..k -> S] : k \in 0..n }

\* ----------------------------------------------------- class-label strings
UpperChars == <<"A", "D", "E", "H", "I", "L", "S", "T", "Y", "X">>
LowerChars == <<"a", "d", "e", "h", "i", "l", "s", "t", "y", "x">>

\* str.lower() on one character
LowerChar(c) ==
  IF \E i \in 1..Len(UpperChars) : UpperChars[i] = c
  THEN LowerChars[CHOOSE i \in 1..Len(UpperChars) : UpperChars[i] = c]
  ELSE c

\* str.lower()
StrLower(s) == [i \in 1..Len(s) |-> LowerChar(s[i])]

\* the Python operator `sub in s` on strings
Contains(s, sub) ==
  \E i \in 1..(Len(s) - Len(sub) + 1) : SubSeq(s, i, i + Len(sub) - 1) = sub

HEALTHY == <<"h", "e", "a", "l", "t", "h", "y">>
DISEASE == <<"d", "i", "s", "e", "a", "s", "e">>

RecHealthy == "healthy state; maintain regular watering."
RecDisease == "disease suspected; expert consultation recommended."
RecMonitor == "periodic monitoring required."

\* faulty variant: the disease test made before the healthy test
RecommendDiseaseFirst(selected_class) ==
  IF Contains(StrLower(selected_class), DISEASE) THEN RecDisease
  ELSE IF Contains(StrLower(selected_class), HEALTHY) THEN RecHealthy
  ELSE RecMonitor

\* the recommendation rule of predict
Recommend(selected_class) ==
  IF Contains(StrLower(selected_class), HEALTHY) THEN RecHealthy
  ELSE IF Contains(StrLower(selected_class), DISEASE) THEN RecDisease
  ELSE RecMonitor

\* fragments the engine's labels are put together from
Frags ==
  { <<"H", "e", "a", "l", "t", "h", "y">>,
    <<"h", "e", "a", "l">>,
    <<"T", "H", "Y">>,
    <<"D", "i", "s", "e", "a", "s", "e">>,
    <<"d", "i", "s", "e", "a", "s">>,
    <<"_", "X">> }

\* every label of at most n fragments
LabelsUpTo(n) == { Concat(p) : p \in SeqsUpTo(Frags, n) }

\* the label the engine returns where the label is not what is examined
OneLabel == { <<"L", "e", "a", "f", "_", "h", "e", "a", "l", "t", "h", "y">> }

\* ------------------------------------------------------------ the uploads
Items ==
  { [filename |-> "a.png", bytes |-> "img1"],
    [filename |-> "a.png", bytes |-> "img2"],
    [filename |-> "a.png", bytes |-> "corrupt"],
    [filename |-> "b.png", bytes |-> "img1"] }
BatchesOf(I) == UNION { [1..n -> I] : n \in 1..MaxFiles }
Batches == BatchesOf(Items)
\* the uploads of the query specification: the same good image, repeated
PlainBatches == BatchesOf({[filename |-> "a.png", bytes |-> "img1"]})
\* the upload of the rule specification: one file
OneFile == { <<[filename |-> "a.png", bytes |-> "img1"]>> }

\* Image.open(io.BytesIO(raw)).convert("RGB")
DecodeImage(raw) ==
  IF raw = "corrupt" THEN [ok |-> FALSE, error |-> "cannot identify image file"]
  ELSE [ok |-> TRUE, image |-> [mode |-> "RGB", pixels |-> raw]]

\* what model.predict_one returns or does
Confidences == {9874}
PredictionsOf(L) ==
  { [picked |-> [label |-> l, model |-> "m1", confidence |-> c]] :
      l \in L, c \in Confidences }
  \cup { [votes |-> "none"] }
EngineRaises == [raise |-> "engine failed"]
EngineOutcomes(L) == PredictionsOf(L) \cup {EngineRaises}

\* f"{confidence:.3f}" of a confidence given in units of 1/10000
Format3(c) == (c + 5) \div 10

\* f"{timestamp}_{f.filename}" under the images directory
ImagePath(timestamp, filename) == <<"Backend/images", timestamp, filename>>


\* --------------------------------------------- the result store (crud module)
\* crud.save_result: the store assigns id and created_at and returns the row
SaveResult(rows, next_id, class_name, class_info, recomm, image_path, t) ==
  LET row == [id |-> next_id, class_name |-> class_name,
              class_info |-> class_info, recomm |-> recomm,
              image_path |-> image_path, created_at |-> t, updated_at |-> t]
  IN [rows |-> Append(rows, row), next_id |-> next_id + 1, row |-> row]

\* crud.get_result_by_id: the row with that id, or None
GetResultByIdRow(rows, result_id) ==
  IF \E i \in 1..Len(rows) : rows[i].id = result_id
  THEN rows[CHOOSE i \in 1..Len(rows) : rows[i].id = result_id]
  ELSE Null

IsDescending(rs) ==
  \A i \in 1..(Len(rs) - 1) : rs[i].created_at >= rs[i + 1].created_at

\* every order of the rows by created_at descending (ties in any order)
DescendingOrders(rows) ==
  { [i \in 1..Len(rows) |-> rows[p[i]]] :
      p \in { q \in [1..Len(rows) -> 1..Len(rows)] :
                /\ \A a, b \in 1..Len(rows) : a # b => q[a] # q[b]
                /\ IsDescending([i \in 1..Len(rows) |-> rows[q[i]]]) } }

Min(a, b) == IF a <= b THEN a ELSE b

\* crud.get_recent_results: the answers the store may give; none for a limit
\* below zero, which no answer of length <= limit satisfies (the call fails)
GetRecentResults(rows, limit) ==
  IF limit < 0 THEN {}
  ELSE { SubSeq(o, 1, Min(limit, Len(o))) : o \in DescendingOrders(rows) }

\* ------------------------------------------------- the predict handler, steps
\* The state of one run of predict with the stores it works on.  pc is the
\* handler's position; steps, wrote, imageOf, firstNew and uploaded are
\* history (what ran, what was written) and are read by no step.
NoLocals ==
  [raw |-> Null, pil |-> Null, prediction |-> Null, image_path |-> Null]

\* the loop moves to the next file, or the handler returns (line 100)
NextItem(rs) ==
  [rs EXCEPT !.idx = rs.idx + 1,
             !.loc = NoLocals,
             !.pc = IF rs.idx + 1 <= Len(rs.files) THEN "read" ELSE "done"]

Log(rs, step, ok) ==
  [rs EXCEPT !.steps[rs.idx] = Append(@, <<step, ok>>)]

\* faulty variant: the except branch swallows the error and reports nothing
FailSilently(rs, step, err) == NextItem(Log(rs, step, FALSE))

\* except Exception as e: the file alone is reported failed
Fail(rs, step, err) ==
  NextItem([Log(rs, step, FALSE) EXCEPT
              !.results = Append(@, [filename |-> rs.files[rs.idx].filename,
                                     error |-> err,
                                     success |-> FALSE])])

\* a request arrives with its files
Accept(rs, files) ==
  [rs EXCEPT !.pc = "get_model", !.files = files, !.idx = 1,
             !.results = << >>, !.loc = NoLocals,
             !.uploaded = @ + Len(files),
             !.steps = [i \in 1..Len(files) |-> << >>],
             !.wrote = << >>, !.firstNew = Len(rs.records) + 1]

\* model = get_model(); results = []
GetModelStep(rs, ok) ==
  IF ok THEN [rs EXCEPT !.pc = "read", !.results = << >>]
  ELSE [rs EXCEPT !.pc = "raised"]

\* raw = await f.read()
ReadStep(rs, ok) ==
  IF ok
  THEN [Log(rs, "read", TRUE) EXCEPT !.pc = "decode",
                                     !.loc.raw = rs.files[rs.idx].bytes]
  ELSE Fail(rs, "read", "read failed")

\* faulty variant: a decode error is swallowed and the file goes on to the engine
DecodeStepGoesOn(rs) ==
  LET d == DecodeImage(rs.loc.raw) IN
  IF d.ok
  THEN [Log(rs, "decode", TRUE) EXCEPT !.pc = "predict", !.loc.pil = d.image]
  ELSE [Log(rs, "decode", FALSE) EXCEPT !.pc = "predict"]

\* pil = Image.open(io.BytesIO(raw)).convert("RGB")
DecodeStep(rs) ==
  LET d == DecodeImage(rs.loc.raw) IN
  IF d.ok
  THEN [Log(rs, "decode", TRUE) EXCEPT !.pc = "predict", !.loc.pil = d.image]
  ELSE Fail(rs, "decode", d.error)

\* prediction = model.predict_one(pil)
PredictStep(rs, outcome) ==
  IF outcome # EngineRaises
  THEN [Log(rs, "predict", TRUE) EXCEPT !.pc = "archive",
                                        !.loc.prediction = outcome]
  ELSE Fail(rs, "predict", outcome.raise)

\* timestamp, filename, image_path; os.makedirs; pil.save(image_path)
ArchiveStep(rs, t, ok) ==
  LET path == ImagePath(t, rs.files[rs.idx].filename) IN
  IF ok
  THEN [Log(rs, "archive", TRUE) EXCEPT
          !.pc = "save",
          !.now = t,
          !.loc.image_path = path,
          !.archive = [q \in DOMAIN rs.archive \cup {path} |->
                         IF q = path THEN rs.loc.pil ELSE rs.archive[q]],
          !.wrote = Append(@, [item |-> rs.idx, path |-> path])]
  ELSE [Fail(rs, "archive", "cannot write image") EXCEPT !.now = t]

\* faulty variant: saved_result.id taken from the position in the batch
SuccessResultCountsId(f, prediction, db_result, position) ==
  [filename |-> f.filename,
   prediction |-> prediction,
   saved_result |->
     [id |-> position,
      class_name |-> db_result.class_name,
      class_info |-> db_result.class_info,
      recomm |-> db_result.recomm,
      image_path |-> db_result.image_path,
      created_at |-> db_result.created_at]]

\* result = {"filename": ..., "prediction": ..., "saved_result": {...}}
SuccessResult(f, prediction, db_result, position) ==
  [filename |-> f.filename,
   prediction |-> prediction,
   saved_result |->
     [id |-> db_result.id,
      class_name |-> db_result.class_name,
      class_info |-> db_result.class_info,
      recomm |-> db_result.recomm,
      image_path |-> db_result.image_path,
      created_at |-> db_result.created_at]]

\* selected_class, class_info, recomm; save_result(...); results.append(result)
SaveStep(rs, t, ok) ==
  LET p == rs.loc.prediction IN
  IF "picked" \notin DOMAIN p
  THEN Fail(rs, "pick", "'picked'")
  ELSE
    LET selected_class == p.picked.label
        class_info == <<"model", p.picked.model,
                        "confidence", Format3(p.picked.confidence)>>
        recomm == Recommend(selected_class)
        saved == SaveResult(rs.records, rs.nextId, selected_class, class_info,
                            recomm, rs.loc.image_path, t)
        db_result == saved.row
    IN
    IF ~ok
    THEN [Fail(Log(rs, "pick", TRUE), "insert", "storage unavailable")
            EXCEPT !.now = t]
    ELSE NextItem(
      [Log(Log(rs, "pick", TRUE), "insert", TRUE) EXCEPT
         !.now = t,
         !.records = saved.rows,
         !.nextId = saved.next_id,
         !.imageOf = [i \in DOMAIN rs.imageOf \cup {db_result.id} |->
                        IF i = db_result.id THEN rs.loc.pil ELSE rs.imageOf[i]],
         !.results = Append(@, SuccessResult(rs.files[rs.idx], p, db_result,
                                             rs.idx))])

\* one pass of the loop body over the current file, the environment's answers
\* given in e
ProcessItem(rs, e) ==
  LET r1 == ReadStep(rs, e.readOk)
      r2 == IF r1.pc = "decode" THEN DecodeStep(r1) ELSE r1
      r3 == IF r2.pc = "predict" THEN PredictStep(r2, e.outcome) ELSE r2
      r4 == IF r3.pc = "archive" THEN ArchiveStep(r3, e.t1, e.archiveOk) ELSE r3
      r5 == IF r4.pc = "save" THEN SaveStep(r4, e.t2, e.saveOk) ELSE r4
  IN r5

\* ---------------------------------------------------------- the query handlers
RecordView(row) ==
  [id |-> row.id, class_name |-> row.class_name, class_info |-> row.class_info,
   recomm |-> row.recomm, image_path |-> row.image_path,
   created_at |-> row.created_at, updated_at |-> row.updated_at]

StoreRaises == [raise |-> "storage unavailable"]

\* faulty variant: total_count taken from the limit instead of the rows returned
GetResultsCountsLimit(limit, answer) ==
  IF answer = StoreRaises
  THEN [status |-> 500, detail |-> <<"lookup failed", answer.raise>>]
  ELSE [status |-> 200,
        body |-> [results |-> [i \in 1..Len(answer.rows) |->
                                 RecordView(answer.rows[i])],
                  total_count |-> limit]]

\* get_results, given what get_recent_results(db, limit=limit) answered
GetResultsHandler(limit, answer) ==
  IF answer = StoreRaises
  THEN [status |-> 500, detail |-> <<"lookup failed", answer.raise>>]
  ELSE [status |-> 200,
        body |-> [results |-> [i \in 1..Len(answer.rows) |->
                                 RecordView(answer.rows[i])],
                  total_count |-> Len(answer.rows)]]

\* the try body of get_result_by_id: what it returns or raises
LookupBody(answer) ==
  IF answer = StoreRaises
  THEN [exc |-> "Exception", detail |-> answer.raise]
  ELSE IF answer.row = Null
  THEN [exc |-> "HTTPException", status |-> 404, detail |-> "not found"]
  ELSE [ret |-> RecordView(answer.row)]

\* faulty variant: no `except HTTPException: raise` before the catch-all
GetResultByIdCatchAll(answer) ==
  LET b == LookupBody(answer) IN
  IF "exc" \in DOMAIN b
  THEN [status |-> 500, detail |-> <<"lookup failed", b.detail>>]
  ELSE [status |-> 200, body |-> b.ret]

\* get_result_by_id, given what crud.get_result_by_id(db, result_id) answered
GetResultByIdHandler(answer) ==
  LET b == LookupBody(answer) IN
  IF "exc" \in DOMAIN b
  THEN IF b.exc = "HTTPException"
       THEN [status |-> b.status, detail |-> b.detail]
       ELSE [status |-> 500, detail |-> <<"lookup failed", b.detail>>]
  ELSE [status |-> 200, body |-> b.ret]

\* ------------------------------------------------------------------- the state
VARIABLES
  pc,         \* position of the predict handler
  files,      \* the uploaded files of the request being served
  idx,        \* index of the file the loop is at
  results,    \* the results list of predict
  loc,        \* raw, pil, prediction, image_path of the current file
  records,    \* the rows of the result store, in insertion order
  nextId,     \* the id the store assigns next
  archive,    \* the images directory: path -> image
  now,        \* the last clock reading
  steps,      \* history: per file, the steps that ran and whether each succeeded
  wrote,      \* history: the archive writes of this request
  imageOf,    \* history: row id -> the image the row was made for
  firstNew,   \* history: index in records of the first row of this request
  uploaded,   \* history: the files uploaded so far, over all requests
  lastQuery,  \* the query being answered, or NoQuery
  runA, runB, \* two runs of predict side by side (the isolation specification)
  isoJ        \* the index of the file in which the two runs differ

vars == <<pc, files, idx, results, loc, records, nextId, archive, now,
          steps, wrote, imageOf, firstNew, uploaded, lastQuery,
          runA, runB, isoJ>>

batchVars == <<pc, files, idx, results, loc, records, nextId, archive, now,
               steps, wrote, imageOf, firstNew, uploaded>>
isoVars == <<runA, runB, isoJ>>

NoQuery == [op |-> "none"]

Fresh ==
  [pc |-> "idle", files |-> << >>, idx |-> 0, results |-> << >>,
   loc |-> NoLocals, records |-> << >>, nextId |-> 1, archive |-> << >>,
   now |-> 0, steps |-> << >>, wrote |-> << >>, imageOf |-> << >>,
   firstNew |-> 1, uploaded |-> 0]

Cur ==
  [pc |-> pc, files |-> files, idx |-> idx, results |-> results, loc |-> loc,
   records |-> records, nextId |-> nextId, archive |-> archive, now |-> now,
   steps |-> steps, wrote |-> wrote, imageOf |-> imageOf,
   firstNew |-> firstNew, uploaded |-> uploaded]

Becomes(rs) ==
  /\ pc' = rs.pc
  /\ files' = rs.files
  /\ idx' = rs.idx
  /\ results' = rs.results
  /\ loc' = rs.loc
  /\ records' = rs.records
  /\ nextId' = rs.nextId
  /\ archive' = rs.archive
  /\ now' = rs.now
  /\ steps' = rs.steps
  /\ wrote' = rs.wrote
  /\ imageOf' = rs.imageOf
  /\ firstNew' = rs.firstNew
  /\ uploaded' = rs.uploaded

Init ==
  /\ pc = Fresh.pc
  /\ files = Fresh.files
  /\ idx = Fresh.idx
  /\ results = Fresh.results
  /\ loc = Fresh.loc
  /\ records = Fresh.records
  /\ nextId = Fresh.nextId
  /\ archive = Fresh.archive
  /\ now = Fresh.now
  /\ steps = Fresh.steps
  /\ wrote = Fresh.wrote
  /\ imageOf = Fresh.imageOf
  /\ firstNew = Fresh.firstNew
  /\ uploaded = Fresh.uploaded
  /\ lastQuery = NoQuery
  /\ runA = Fresh
  /\ runB = Fresh
  /\ isoJ = 0

\* the clock readings that may follow the last one
Later(t) == t..MaxClock

Quiet == lastQuery = NoQuery

\* POST /api/predict arrives with one of the batches of B; cap bounds the
\* files uploaded over all requests
Submit(B, cap) ==
  /\ Quiet
  /\ pc \in {"idle", "done", "raised"}
  /\ \E b \in B :
       /\ uploaded + Len(b) <= cap
       /\ Becomes(Accept(Cur, b))
  /\ UNCHANGED <<lastQuery, isoVars>>

GetModel ==
  /\ Quiet
  /\ pc = "get_model"
  /\ \E ok \in BOOLEAN : Becomes(GetModelStep(Cur, ok))
  /\ UNCHANGED <<lastQuery, isoVars>>

Read ==
  /\ Quiet
  /\ pc = "read"
  /\ \E ok \in BOOLEAN : Becomes(ReadStep(Cur, ok))
  /\ UNCHANGED <<lastQuery, isoVars>>

Decode ==
  /\ Quiet
  /\ pc = "decode"
  /\ Becomes(DecodeStep(Cur))
  /\ UNCHANGED <<lastQuery, isoVars>>

\* the engine answers with a label of L, without a picked decision, or raises
Predict(L) ==
  /\ Quiet
  /\ pc = "predict"
  /\ \E outcome \in EngineOutcomes(L) : Becomes(PredictStep(Cur, outcome))
  /\ UNCHANGED <<lastQuery, isoVars>>

Archive ==
  /\ Quiet
  /\ pc = "archive"
  /\ \E t \in Later(now), ok \in BOOLEAN : Becomes(ArchiveStep(Cur, t, ok))
  /\ UNCHANGED <<lastQuery, isoVars>>

Save ==
  /\ Quiet
  /\ pc = "save"
  /\ \E t \in Later(now), ok \in BOOLEAN : Becomes(SaveStep(Cur, t, ok))
  /\ UNCHANGED <<lastQuery, isoVars>>

\* the handlers without an await run between two steps of predict only where
\* predict awaits (f.read()) or is not running
MayServeQuery == Quiet /\ pc \in {"idle", "read", "done", "raised"}

Limits == (-1..MaxLimit) \cup {DefaultLimit}

\* GET /api/results?limit=...
GetResults ==
  /\ MayServeQuery
  /\ \E limit \in Limits :
       \E answer \in {StoreRaises} \cup
                     { [rows |-> r] : r \in GetRecentResults(records, limit) } :
         lastQuery' = [op |-> "get_results", limit |-> limit,
                       answer |-> answer,
                       response |-> GetResultsHandler(limit, answer)]
  /\ UNCHANGED <<batchVars, isoVars>>

\* GET /api/results/{result_id}
GetResultById ==
  /\ MayServeQuery
  /\ \E result_id \in 0..(MaxFiles + 1) :
       \E answer \in {StoreRaises,
                      [row |-> GetResultByIdRow(records, result_id)]} :
         lastQuery' = [op |-> "get_result_by_id", result_id |-> result_id,
                       answer |-> answer,
                       response |-> GetResultByIdHandler(answer)]
  /\ UNCHANGED <<batchVars, isoVars>>

\* the response leaves
Respond ==
  /\ ~Quiet
  /\ lastQuery' = NoQuery
  /\ UNCHANGED <<batchVars, isoVars>>

\* ------------------------------------------------------- the specifications
\* the batch handler alone, over every upload and every failure
Next ==
  \/ Submit(Batches, MaxFiles)
  \/ GetModel
  \/ Read
  \/ Decode
  \/ Predict(OneLabel)
  \/ Archive
  \/ Save

Spec == Init /\ [][Next]_vars

\* the query handlers over the stores the batch handler builds
NextQuery ==
  \/ Submit(PlainBatches, MaxFiles)
  \/ GetModel
  \/ Read
  \/ Decode
  \/ Predict(OneLabel)
  \/ Archive
  \/ Save
  \/ GetResults
  \/ GetResultById
  \/ Respond

SpecQuery == Init /\ [][NextQuery]_vars

\* one file, the engine answering with every label of at most MaxParts fragments
NextRule ==
  \/ Submit(OneFile, 1)
  \/ GetModel
  \/ Read
  \/ Decode
  \/ Predict(LabelsUpTo(MaxParts))
  \/ Archive
  \/ Save

SpecRule == Init /\ [][NextRule]_vars

\* two runs of predict side by side: the same files but for the bytes of file
\* isoJ, the same answers of the environment for every other file
Max(a, b) == IF a >= b THEN a ELSE b

Envs(t0) ==
  { e \in [readOk : BOOLEAN, outcome : EngineOutcomes(OneLabel),
           t1 : Later(t0), archiveOk : BOOLEAN,
           t2 : Later(t0), saveOk : BOOLEAN] : e.t1 <= e.t2 }

IsoStart ==
  /\ isoJ = 0
  /\ \E b \in Batches, j \in 1..MaxFiles, alt \in {"img1", "img2", "corrupt"} :
       /\ j <= Len(b)
       /\ alt # b[j].bytes
       /\ runA' = GetModelStep(Accept(Fresh, b), TRUE)
       /\ runB' = GetModelStep(
                    Accept(Fresh, [b EXCEPT ![j].bytes = alt]), TRUE)
       /\ isoJ' = j
  /\ UNCHANGED <<batchVars, lastQuery>>

IsoItem ==
  /\ isoJ # 0
  /\ runA.pc = "read"
  /\ \E eA, eB \in Envs(Max(runA.now, runB.now)) :
       /\ runA.idx # isoJ => eA = eB
       /\ runA' = ProcessItem(runA, eA)
       /\ runB' = ProcessItem(runB, eB)
  /\ UNCHANGED <<batchVars, lastQuery, isoJ>>

NextIso ==
  \/ IsoStart
  \/ IsoItem

SpecIso == Init /\ [][NextIso]_vars

\* ---------------------------------------------------------------- the claims
IsFailure(r) ==
  /\ DOMAIN r = {"filename", "error", "success"}
  /\ r.success = FALSE

IsSuccess(r) == DOMAIN r = {"filename", "prediction", "saved_result"}

\* some step of file i failed
StepFailed(log) == \E k \in 1..Len(log) : log[k][2] = FALSE

Succeeded(log, step) == \E k \in 1..Len(log) : log[k] = <<step, TRUE>>

\* the rows inserted by the request being served
NewRows == { k \in 1..Len(records) : k >= firstNew }

\* C1: when predict returns, results has one entry per uploaded file, entry i
\* carries the filename of file i, and every file in which a step failed is
\* reported as a failure (success false, no saved_result).
C1_OneResultPerFileInOrder ==
  pc = "done" =>
    /\ Len(results) = Len(files)
    /\ \A i \in 1..Len(files) :
         /\ results[i].filename = files[i].filename
         /\ StepFailed(steps[i]) =>
              /\ IsFailure(results[i])
              /\ "saved_result" \notin DOMAIN results[i]

\* C1 witness: a returned batch of two files, the first failed after its
\* archive write, the second saved
C1_Witness ==
  /\ pc = "done"
  /\ Len(files) = 2
  /\ files[1].filename # files[2].filename
  /\ Succeeded(steps[1], "archive")
  /\ StepFailed(steps[1])
  /\ IsFailure(results[1])
  /\ IsSuccess(results[2])

\* C2: no exception leaves predict: whatever fails, the handler returns its
\* results body.
C2_NoExceptionLeavesPredict == pc # "raised"

\* C3: when predict returns, the rows inserted during the request are exactly
\* the rows the success results name by saved_result.id, one row per success
\* result, and none for a failure result.
C3_RowsMatchSuccessResults ==
  pc = "done" =>
    LET succ == { i \in 1..Len(results) : IsSuccess(results[i]) } IN
    /\ { records[k].id : k \in NewRows } =
         { results[i].saved_result.id : i \in succ }
    /\ Cardinality(NewRows) = Cardinality(succ)
    /\ \A i \in 1..Len(results) : IsSuccess(results[i]) \/ IsFailure(results[i])
    /\ \A i \in succ : \E k \in NewRows :
         /\ records[k].id = results[i].saved_result.id
         /\ records[k].image_path = results[i].saved_result.image_path
         /\ imageOf[records[k].id] = DecodeImage(files[i].bytes).image

\* C3 witness: two files, the second corrupted: one success, one failure, one
\* row inserted
C3_Witness ==
  /\ pc = "done"
  /\ Len(files) = 2
  /\ IsSuccess(results[1])
  /\ IsFailure(results[2])
  /\ files[2].bytes = "corrupt"
  /\ Cardinality(NewRows) = 1

\* C5: every row names, by image_path, an archived image that is the image the
\* row was made for, and no two rows share an image_path.
C5_OneBlobPerRow ==
  /\ \A k \in 1..Len(records) :
       /\ records[k].image_path \in DOMAIN archive
       /\ archive[records[k].image_path] = imageOf[records[k].id]
  /\ \A k, l \in 1..Len(records) :
       k # l => records[k].image_path # records[l].image_path

StepOrder == <<"read", "decode", "predict", "archive", "pick", "insert">>

\* C9: for every file the steps run in the order read, decode, predict, archive
\* write, picked decision, insert; a step runs only after the one before it
\* succeeded, and none runs after a failed one.  An image is in the archive only
\* for a file whose prediction returned, a row only for a file whose archive
\* write succeeded.
C9_StepsInOrder ==
  /\ \A i \in 1..Len(steps) :
       /\ Len(steps[i]) <= Len(StepOrder)
       /\ \A k \in 1..Len(steps[i]) :
            /\ steps[i][k][1] = StepOrder[k]
            /\ k < Len(steps[i]) => steps[i][k][2] = TRUE
  /\ \A w \in 1..Len(wrote) :
       /\ Succeeded(steps[wrote[w].item], "decode")
       /\ Succeeded(steps[wrote[w].item], "predict")
  /\ \A i \in 1..Len(results) :
       IsSuccess(results[i]) =>
         \E w \in 1..Len(wrote) :
           /\ wrote[w].item = i
           /\ wrote[w].path = results[i].saved_result.image_path

\* C9 witness: a file whose bytes do not decode: the engine was not invoked
\* and nothing was written for it, while the file before it went through
C9_Witness ==
  /\ pc = "done"
  /\ Len(files) = 2
  /\ Succeeded(steps[1], "insert")
  /\ steps[2] = << <<"read", TRUE>>, <<"decode", FALSE>> >>

\* C10: when predict returns, every image it wrote to the archive during the
\* request is named by the image_path of a row inserted in the same request.
C10_NoBlobWithoutRow ==
  pc = "done" =>
    \A w \in 1..Len(wrote) :
      \E k \in NewRows : records[k].image_path = wrote[w].path

\* the rule stated on the label itself: word w occurs in label l, letter case
\* ignored
HasWord(l, w) ==
  \E i \in 1..(Len(l) - Len(w) + 1) :
    \A k \in 1..Len(w) : LowerChar(l[i + k - 1]) = w[k]

\* C6: the recommendation of every row is the healthy one when its class name
\* contains "healthy" in any letter case (also when it contains "disease"), the
\* disease one when it contains "disease" and not "healthy", the monitoring one
\* otherwise; the class name of the row is the label the engine picked.
C6_RecommendationRule ==
  /\ \A k \in 1..Len(records) :
       LET l == records[k].class_name IN
       /\ HasWord(l, HEALTHY) => records[k].recomm = RecHealthy
       /\ (~HasWord(l, HEALTHY) /\ HasWord(l, DISEASE)) =>
            records[k].recomm = RecDisease
       /\ (~HasWord(l, HEALTHY) /\ ~HasWord(l, DISEASE)) =>
            records[k].recomm = RecMonitor
  /\ \A i \in 1..Len(results) :
       IsSuccess(results[i]) =>
         /\ results[i].saved_result.class_name =
              results[i].prediction.picked.label
         /\ \E k \in 1..Len(records) :
              /\ records[k].id = results[i].saved_result.id
              /\ records[k].class_name = results[i].prediction.picked.label
              /\ records[k].recomm = results[i].saved_result.recomm

\* C6 witness: a saved row whose label holds both words, in mixed case, disease
\* first
C6_Witness ==
  \E k \in 1..Len(records) :
    /\ records[k].class_name =
         <<"D", "i", "s", "e", "a", "s", "e", "_", "X",
           "H", "e", "a", "l", "t", "h", "y">>
    /\ records[k].recomm = RecHealthy

RowWithId(result_id) == { k \in 1..Len(records) : records[k].id = result_id }

\* C7: get_result_by_id answers with the row's view when the store returns a
\* row, with 404 exactly when the store call succeeds and returns no row, and
\* with 500 exactly when the store call fails.
C7_NotFoundIsNotFailure ==
  lastQuery.op = "get_result_by_id" =>
    LET storeOk == lastQuery.answer # StoreRaises
        found == RowWithId(lastQuery.result_id) # {}
        status == lastQuery.response.status
    IN
    /\ (storeOk /\ found) =>
         /\ status = 200
         /\ \E k \in RowWithId(lastQuery.result_id) :
              lastQuery.response.body = RecordView(records[k])
    /\ status = 404 <=> (storeOk /\ ~found)
    /\ status = 500 <=> ~storeOk

\* C7 witness: a lookup of an id no row has, in a store that holds rows,
\* answered 404
C7_Witness ==
  /\ lastQuery.op = "get_result_by_id"
  /\ records # << >>
  /\ RowWithId(lastQuery.result_id) = {}
  /\ lastQuery.response.status = 404

C8_Answer ==
  (lastQuery.op = "get_results" /\ lastQuery.response.status = 200) =>
    LET body == lastQuery.response.body IN
    /\ Len(body.results) <= lastQuery.limit
    /\ IsDescending(body.results)
    /\ body.total_count = Len(body.results)
    /\ lastQuery.limit = 0 => (body.results = << >> /\ body.total_count = 0)
    /\ \A i \in 1..Len(body.results) :
         \E k \in 1..Len(records) : body.results[i] = RecordView(records[k])

C8_StoreUntouched ==
  lastQuery'.op = "get_results" =>
    /\ records' = records
    /\ nextId' = nextId
    /\ archive' = archive

\* C8: get_results(limit) returns at most limit row views ordered by created_at
\* descending, total_count is the number of views returned, limit 0 gives none,
\* and the call leaves the result store as it was.
C8_RecentResults == [](C8_Answer) /\ [][C8_StoreUntouched]_vars

\* C8 witness: a store of two rows with different created_at, limit 1: one view,
\* the later row's
C8_Witness ==
  /\ lastQuery.op = "get_results"
  /\ lastQuery.limit = 1
  /\ Len(records) = 2
  /\ records[1].created_at < records[2].created_at
  /\ lastQuery.response.status = 200
  /\ lastQuery.response.body.total_count = 1
  /\ lastQuery.response.body.results[1].id = records[2].id

\* what run rs left for file i: the kind of result and, for a success, the row's
\* fields and the archived image its image_path names
Trace(rs, i) ==
  LET r == rs.results[i] IN
  IF IsSuccess(r)
  THEN [kind |-> "success",
        class_name |-> r.saved_result.class_name,
        recomm |-> r.saved_result.recomm,
        image_path |-> r.saved_result.image_path,
        blob |-> rs.archive[r.saved_result.image_path]]
  ELSE [kind |-> "failure", error |-> r.error]

\* C4: two runs over batches that differ in the bytes of one file only, the
\* environment answering alike for every other file, give every other file the
\* same kind of result and leave the same row and archived image for it.
C4_FilesAreIsolated ==
  (isoJ # 0 /\ runA.pc = "done" /\ runB.pc = "done") =>
    \A i \in 1..Len(runA.files) :
      i # isoJ => Trace(runA, i) = Trace(runB, i)

=============================================================================
